---- MODULE Spec2Model ----
(***************************************************************************)
(* Model of the healthsites Locality write pipeline:                       *)
(*   localities/forms.py  DomainForm, LocalityForm                         *)
(*   localities/views.py  LocalityCreate, LocalityUpdate                   *)
(*   api/views.py         LocalityAPI                                      *)
(* The database holds three tables (Locality, Value, Changeset).  Every    *)
(* HTTP request is served by one worker: post() loads the object and       *)
(* validates the form, form_valid() runs the transaction.  Two workers may *)
(* interleave between those two steps.                                     *)
(***************************************************************************)
EXTENDS Integers, FiniteSets

\* ------------------------------------------------------------------ bounds
MaxLocalities == 2
MaxChangesets == 2

\* --------------------------------------------------------------- universes
Workers == {"w1", "w2"}
Users == {"alice"}
Domains == {"hospital", "school"}
Absent == "<absent>"
AttrKeys == {"name", "phone"}
AttrInputs == {Absent, "a"}
LonInputs == {"10.0", "11", "abc"}
LatInputs == {"20"}

\* Specification rows of the two Domains: attribute key |-> required.
specification_set(domain) ==
    IF domain = "hospital" THEN [k \in {"name", "phone"} |-> k = "name"]
    ELSE IF domain = "school" THEN [k \in {"name"} |-> TRUE]
    ELSE [k \in {} |-> TRUE]

\* ------------------------------------------------------------------- state
VARIABLES localities, values, changesets, pc, req, resp

vars == <<localities, values, changesets, pc, req, resp>>

db == [localities |-> localities, values |-> values, changesets |-> changesets]

NoObject == [pk |-> 0, domain |-> "", geom |-> <<0, 0>>, changeset |-> 0, version |-> 0]

NoPost == [lon |-> Absent, lat |-> Absent, name |-> Absent, phone |-> Absent]

NoRequest == [op |-> "none", user |-> "", POST |-> NoPost, object |-> NoObject]

\* --------------------------------------------------------------- the forms
\* forms.FloatField: float(value) of the submitted text.
FloatTable == [s \in {"10.0", "11", "20"} |->
                 IF s = "10.0" THEN 10 ELSE IF s = "11" THEN 11 ELSE 20]

FloatField_valid(raw) == raw \in DOMAIN FloatTable

FloatField_clean(raw) == FloatTable[raw]

\* forms.CharField: a key missing from the POST data cleans to the empty string.
CharField_clean(raw) == IF raw = Absent THEN "" ELSE raw

CharField_valid(required, raw) == ~(required /\ CharField_clean(raw) = "")

\* Mutant: every field is built with required=False.
M_DomainForm_fields(domain) == [k \in DOMAIN specification_set(domain) |-> FALSE]

\* DomainForm.__init__ / LocalityForm.__init__: one CharField per Specification
\* of the Domain, required as the Specification says.
DomainForm_fields(domain) == specification_set(domain)

LocalityForm_fields(locality) == specification_set(locality.domain)

\* Mutant: a POST key that is no declared field fails the validation.
M_is_valid(fields, POST) ==
    /\ FloatField_valid(POST["lon"])
    /\ FloatField_valid(POST["lat"])
    /\ \A k \in DOMAIN fields : CharField_valid(fields[k], POST[k])
    /\ \A k \in AttrKeys \ DOMAIN fields : POST[k] = Absent

\* Form.is_valid: only declared fields are looked at; any other POST key is ignored.
is_valid(fields, POST) ==
    /\ FloatField_valid(POST["lon"])
    /\ FloatField_valid(POST["lat"])
    /\ \A k \in DOMAIN fields : CharField_valid(fields[k], POST[k])

\* form.cleaned_data after lon and lat were popped.
cleaned_data(fields, POST) == [k \in DOMAIN fields |-> CharField_clean(POST[k])]

\* ---------------------------------------------------------- model methods
\* Locality.set_geom(lon, lat) on the in-memory object.
set_geom(obj, lon, lat) == [obj EXCEPT !.geom = <<lon, lat>>]

\* Locality.tracker.changed(): the in-memory fields against the values loaded.
tracker_changed(obj, loaded) == obj # loaded

\* Mutant: the newest Changeset row is written over instead of a row being added.
M_Changeset_create(d, user) ==
    LET id == Cardinality(DOMAIN d.changesets)
    IN [d EXCEPT !.changesets =
            [c \in DOMAIN d.changesets |->
                IF c = id THEN [social_user |-> user, created |-> id + 1]
                ELSE d.changesets[c]]]

\* Changeset.objects.create(social_user=user)
Changeset_create(d, user) ==
    LET id == Cardinality(DOMAIN d.changesets) + 1
    IN [d EXCEPT !.changesets =
            [c \in DOMAIN d.changesets \cup {id} |->
                IF c = id THEN [social_user |-> user, created |-> id]
                ELSE d.changesets[c]]]

LastChangeset(d) == Cardinality(DOMAIN d.changesets)

\* Mutant: the version is written without the increment.
M_save_version(obj, isNew, changed) == IF isNew THEN 1 ELSE obj.version

\* Locality.save(): writes every column of the in-memory object; the version
\* is 1 for a new row and is incremented when a tracked field changed.
save_version(obj, isNew, changed) ==
    IF isNew THEN 1 ELSE IF changed THEN obj.version + 1 ELSE obj.version

save(d, obj, isNew, changed) ==
    LET row == [domain |-> obj.domain, geom |-> obj.geom,
                changeset |-> obj.changeset,
                version |-> save_version(obj, isNew, changed)]
    IN [d EXCEPT !.localities =
            [l \in DOMAIN d.localities \cup {obj.pk} |->
                IF l = obj.pk THEN row ELSE d.localities[l]]]

\* Mutant: a row is inserted without looking for the existing one.
M_set_value(vals, pk, key, data) ==
    vals \cup {[locality |-> pk, key |-> key, data |-> data]}

\* Locality.set_values(data, social_user): for every key of the mapping update
\* the Value row of (locality, specification) when there is one, else create it.
set_value(vals, pk, key, data) ==
    IF \E v \in vals : v.locality = pk /\ v.key = key
    THEN {IF v.locality = pk /\ v.key = key THEN [v EXCEPT !.data = data] ELSE v :
             v \in vals}
    ELSE vals \cup {[locality |-> pk, key |-> key, data |-> data]}

RECURSIVE set_values_keys(_, _, _, _)
set_values_keys(vals, pk, data, keys) ==
    IF keys = {} THEN vals
    ELSE LET k == CHOOSE x \in keys : TRUE
         IN set_values_keys(set_value(vals, pk, k, data[k]), pk, data, keys \ {k})

set_values(d, pk, data) ==
    [d EXCEPT !.values = set_values_keys(d.values, pk, data, DOMAIN data)]

\* Locality.repr_dict(): identity fields, geometry, one entry per Value row.
repr_dict(d, pk) ==
    [uuid |-> pk,
     version |-> d.localities[pk].version,
     geom |-> d.localities[pk].geom,
     values |-> [k \in {v.key : v \in {x \in d.values : x.locality = pk}} |->
                   (CHOOSE v \in d.values : v.locality = pk /\ v.key = k).data]]

\* LocalityAPI.get
LocalityAPI_get(d, pk) == repr_dict(d, pk)

\* ------------------------------------------------------------ transactions
\* Mutant: no transaction, the writes made before the failure stay.
M_atomic(pre, body, raised) == body

\* with transaction.atomic(): the body's writes become visible together, or,
\* when the body raised, not at all.
atomic(pre, body, raised) == IF raised THEN pre ELSE body

FailPoints == {"none", "changeset", "save", "values"}

\* Mutant: the Changeset is created whether or not the tracker reports a change.
M_LocalityUpdate_body_always(d, r, failAt) ==
    LET fields  == LocalityForm_fields(r.object)
        obj1    == set_geom(r.object, FloatField_clean(r.POST["lon"]),
                            FloatField_clean(r.POST["lat"]))
        d1      == Changeset_create(d, r.user)
        obj2    == [obj1 EXCEPT !.changeset = LastChangeset(d1)]
        d2      == save(d1, obj2, FALSE, tracker_changed(obj2, r.object))
        d3      == set_values(d2, obj2.pk, cleaned_data(fields, r.POST))
    IN CASE failAt = "changeset" -> d1
         [] failAt = "save"      -> d2
         [] failAt = "values"    -> d2
         [] OTHER                -> d3

\* Mutant: save() is called only when the tracker reports a change.
M_LocalityUpdate_body_skip_save(d, r, failAt) ==
    LET fields  == LocalityForm_fields(r.object)
        obj1    == set_geom(r.object, FloatField_clean(r.POST["lon"]),
                            FloatField_clean(r.POST["lat"]))
        changed == tracker_changed(obj1, r.object)
        d1      == IF changed THEN Changeset_create(d, r.user) ELSE d
        obj2    == IF changed THEN [obj1 EXCEPT !.changeset = LastChangeset(d1)]
                   ELSE obj1
        d2      == IF changed THEN save(d1, obj2, FALSE, TRUE) ELSE d1
        d3      == set_values(d2, obj2.pk, cleaned_data(fields, r.POST))
    IN CASE failAt = "changeset" -> d1
         [] failAt = "save"      -> d2
         [] failAt = "values"    -> d2
         [] OTHER                -> d3

\* LocalityUpdate.form_valid, the writes made up to the point of failure.
LocalityUpdate_body(d, r, failAt) ==
    LET fields  == LocalityForm_fields(r.object)
        obj1    == set_geom(r.object, FloatField_clean(r.POST["lon"]),
                            FloatField_clean(r.POST["lat"]))
        changed == tracker_changed(obj1, r.object)
        d1      == IF changed THEN Changeset_create(d, r.user) ELSE d
        obj2    == IF changed THEN [obj1 EXCEPT !.changeset = LastChangeset(d1)]
                   ELSE obj1
        d2      == save(d1, obj2, FALSE, tracker_changed(obj2, r.object))
        d3      == set_values(d2, obj2.pk, cleaned_data(fields, r.POST))
    IN CASE failAt = "changeset" -> d1
         [] failAt = "save"      -> d2
         \* the first key was written, the next write raised
         [] failAt = "values"    ->
                [d2 EXCEPT !.values =
                    set_values_keys(d2.values, obj2.pk, cleaned_data(fields, r.POST),
                                    {"name"} \cap DOMAIN fields)]
         [] OTHER                -> d3

UpdateDirty(r) ==
    tracker_changed(set_geom(r.object, FloatField_clean(r.POST["lon"]),
                             FloatField_clean(r.POST["lat"])), r.object)

NewPk(d) == Cardinality(DOMAIN d.localities) + 1

\* Mutant: loc.set_values() is left out.
M_LocalityCreate_body(d, r, failAt) ==
    LET d1     == Changeset_create(d, r.user)
        loc    == [pk |-> NewPk(d), domain |-> r.object.domain,
                   geom |-> <<FloatField_clean(r.POST["lon"]),
                              FloatField_clean(r.POST["lat"])>>,
                   changeset |-> LastChangeset(d1), version |-> 0]
        d2     == save(d1, loc, TRUE, TRUE)
    IN CASE failAt = "changeset" -> d1
         [] OTHER                -> d2

\* LocalityCreate.form_valid, the writes made up to the point of failure.

LocalityCreate_body(d, r, failAt) ==
    LET fields == DomainForm_fields(r.object.domain)
        d1     == Changeset_create(d, r.user)
        loc    == [pk |-> NewPk(d), domain |-> r.object.domain,
                   geom |-> <<FloatField_clean(r.POST["lon"]),
                              FloatField_clean(r.POST["lat"])>>,
                   changeset |-> LastChangeset(d1), version |-> 0]
        d2     == save(d1, loc, TRUE, TRUE)
        d3     == set_values(d2, loc.pk, cleaned_data(fields, r.POST))
    IN CASE failAt = "changeset" -> d1
         [] failAt = "save"      -> d2
         \* the first key was written, the next write raised
         [] failAt = "values"    ->
                [d2 EXCEPT !.values =
                    set_values_keys(d2.values, loc.pk, cleaned_data(fields, r.POST),
                                    {"name"} \cap DOMAIN fields)]
         [] OTHER                -> d3

\* -------------------------------------------------------------------- Init
NoResponse == [view |-> "none", status |-> "none", body |-> 0, errors |-> {}]

Init ==
    /\ localities = [l \in {1} |-> [domain |-> "hospital", geom |-> <<10, 20>>,
                                    changeset |-> 1, version |-> 1]]
    /\ values = {[locality |-> 1, key |-> "name", data |-> "a"]}
    /\ changesets = [c \in {1} |-> [social_user |-> "importer", created |-> 1]]
    /\ pc = [w \in Workers |-> "idle"]
    /\ req = [w \in Workers |-> NoRequest]
    /\ resp = [w \in Workers |-> NoResponse]

Posts ==
    {[lon |-> lon, lat |-> lat, name |-> name, phone |-> phone] :
        lon \in LonInputs, lat \in LatInputs, name \in AttrInputs, phone \in AttrInputs}

SetDb(d) ==
    /\ localities' = d.localities
    /\ values' = d.values
    /\ changesets' = d.changesets

\* The response is sent and the worker is free again.
Finish(w, view, status, body, errors) ==
    /\ pc' = [pc EXCEPT ![w] = "idle"]
    /\ req' = [req EXCEPT ![w] = NoRequest]
    /\ resp' = [resp EXCEPT ![w] = [view |-> view, status |-> status, body |-> body,
                                    errors |-> errors]]

\* form.errors: the declared fields whose submitted text did not validate.
form_errors(fields, POST) ==
    {f \in {"lon", "lat"} : ~FloatField_valid(POST[f])}
        \cup {k \in DOMAIN fields : ~CharField_valid(fields[k], POST[k])}

\* FormView.post: form_valid() when the form validates, else form_invalid().
FormView_post(w, r, fields) ==
    IF is_valid(fields, r.POST)
    THEN /\ pc' = [pc EXCEPT ![w] = "form_valid"]
         /\ req' = [req EXCEPT ![w] = r]
         /\ resp' = [resp EXCEPT ![w] = NoResponse]
    ELSE Finish(w, r.op, "form_invalid", 0, form_errors(fields, r.POST))

\* A request goes to the first free worker.
Accepts(w) ==
    /\ pc[w] = "idle"
    /\ w = "w2" => pc["w1"] # "idle"

\* get_object() of LocalityUpdate.post
get_object(d, pk) ==
    [pk |-> pk, domain |-> d.localities[pk].domain, geom |-> d.localities[pk].geom,
     changeset |-> d.localities[pk].changeset, version |-> d.localities[pk].version]

\* LocalityUpdate.post: get_object, get_form, is_valid.
LocalityUpdate_post(w, user, pk, POST) ==
    /\ Accepts(w)
    /\ pk \in DOMAIN localities
    /\ UNCHANGED <<localities, values, changesets>>
    /\ LET obj == get_object(db, pk)
       IN FormView_post(w, [op |-> "update", user |-> user, POST |-> POST,
                            object |-> obj], LocalityForm_fields(obj))

\* LocalityUpdate.form_valid
LocalityUpdate_form_valid(w, failAt) ==
    /\ pc[w] = "form_valid"
    /\ req[w].op = "update"
    /\ failAt = "none" /\ UpdateDirty(req[w]) => LastChangeset(db) < MaxChangesets
    /\ SetDb(atomic(db, LocalityUpdate_body(db, req[w], failAt), failAt # "none"))
    /\ IF failAt = "none" THEN Finish(w, "update", "OK", 0, {})
       ELSE Finish(w, "update", "exception", 0, {})

\* LocalityCreate.post
LocalityCreate_post(w, user, domain, POST) ==
    /\ Accepts(w)
    /\ UNCHANGED <<localities, values, changesets>>
    /\ FormView_post(w, [op |-> "create", user |-> user, POST |-> POST,
                         object |-> [NoObject EXCEPT !.domain = domain]],
                     DomainForm_fields(domain))

\* LocalityCreate.form_valid
LocalityCreate_form_valid(w, failAt) ==
    /\ pc[w] = "form_valid"
    /\ req[w].op = "create"
    /\ failAt = "none" => /\ LastChangeset(db) < MaxChangesets
                          /\ NewPk(db) <= MaxLocalities
    /\ SetDb(atomic(db, LocalityCreate_body(db, req[w], failAt), failAt # "none"))
    /\ IF failAt = "none" THEN Finish(w, "create", "created", NewPk(db), {})
       ELSE Finish(w, "create", "exception", 0, {})

Step(w) ==
    \/ \E u \in Users, pk \in DOMAIN localities, P \in Posts :
          LocalityUpdate_post(w, u, pk, P)
    \/ \E f \in FailPoints : LocalityUpdate_form_valid(w, f)
    \/ \E u \in Users, dn \in Domains, P \in Posts : LocalityCreate_post(w, u, dn, P)
    \/ \E f \in FailPoints : LocalityCreate_form_valid(w, f)

Next == \E w \in Workers : Step(w)

Spec == Init /\ [][Next]_vars

\* One request at a time: a worker starts only when no other is in its transaction.
Quiet(w) == \A o \in Workers \ {w} : pc[o] # "form_valid"

SeqNext == \E w \in Workers : Quiet(w) /\ Step(w)

SeqSpec == Init /\ [][SeqNext]_vars

\* ------------------------------------------------------------ the claims
SubmittedGeom(r) == <<FloatField_clean(r.POST["lon"]), FloatField_clean(r.POST["lat"])>>

\* The step in which worker w's transaction commits.
UpdateCommits(w) ==
    pc[w] = "form_valid" /\ req[w].op = "update" /\ resp'[w].status = "OK"

CreateCommits(w) ==
    pc[w] = "form_valid" /\ req[w].op = "create" /\ resp'[w].status = "created"

\* Holds of every step in which worker w's post() of the given view answers
\* (the form is handed to form_valid, or the response is sent).
Posted(w, view) ==
    /\ pc[w] = "idle"
    /\ \/ pc'[w] = "form_valid" /\ req'[w].op = view
       \/ pc'[w] = "idle" /\ resp'[w].view = view

ValueRows(vals, pk, key) == {v \in vals : v.locality = pk /\ v.key = key}

UnchangedLedger == \A c \in DOMAIN changesets :
                       c \in DOMAIN changesets' /\ changesets'[c] = changesets[c]

NewChangesets == DOMAIN changesets' \ DOMAIN changesets

CompleteMapping(domain, POST) ==
    \A k \in AttrKeys : POST[k] # Absent <=> k \in DOMAIN specification_set(domain)

\* C2: a Create with a complete, valid mapping adds exactly one Locality, bound
\* to the Domain and to the one new Changeset, and exactly one Value per
\* supplied key; the read projection of the new Locality gives back every
\* supplied key with the supplied value.
C2_CreatePersistsAll ==
    [][\A w \in Workers :
          CreateCommits(w) /\ CompleteMapping(req[w].object.domain, req[w].POST) =>
              LET pk      == resp'[w].body
                  keys    == DOMAIN specification_set(req[w].object.domain)
                  newvals == values' \ values
              IN /\ pk \notin DOMAIN localities
                 /\ DOMAIN localities' = DOMAIN localities \cup {pk}
                 /\ \A l \in DOMAIN localities : localities'[l] = localities[l]
                 /\ localities'[pk].domain = req[w].object.domain
                 /\ Cardinality(NewChangesets) = 1
                 /\ UnchangedLedger
                 /\ localities'[pk].changeset \in NewChangesets
                 /\ values \subseteq values'
                 /\ \A v \in newvals : v.locality = pk /\ v.key \in keys
                 /\ \A k \in keys : Cardinality({v \in newvals : v.key = k}) = 1
                 /\ LocalityAPI_get(db', pk).values = [k \in keys |-> req[w].POST[k]]]_vars

\* A hospital was created with both of its keys supplied.
C2_Witness ==
    \E w \in Workers :
        /\ resp[w].view = "create" /\ resp[w].status = "created"
        /\ resp[w].body \in DOMAIN localities
        /\ localities[resp[w].body].domain = "hospital"
        /\ localities[resp[w].body].version = 1
        /\ LocalityAPI_get(db, resp[w].body).values = [k \in {"name", "phone"} |-> "a"]

\* C3 (requests run one at a time): a Create whose mapping omits a required Specification key of the Domain
\* ends as form_invalid and leaves Localities, Values and Changesets as they were.
C3_CreateMissingRequired ==
    [][\A w \in Workers : Posted(w, "create") =>
       \A u \in Users, dn \in Domains, P \in Posts :
          (/\ \E k \in DOMAIN specification_set(dn) :
                 specification_set(dn)[k] /\ P[k] = Absent
           /\ LocalityCreate_post(w, u, dn, P))
          => /\ resp'[w].status = "form_invalid"
             /\ pc'[w] = "idle"
             /\ localities' = localities
             /\ values' = values
             /\ changesets' = changesets]_vars

\* A Create was refused because the required key was missing.
C3_Witness ==
    \E w \in Workers :
        /\ pc[w] = "idle"
        /\ resp[w].view = "create"
        /\ resp[w].status = "form_invalid"
        /\ "name" \in resp[w].errors

\* The submitted keys that are no Specification of the Domain.
ExtraKeys(domain, POST) ==
    {k \in AttrKeys \ DOMAIN specification_set(domain) : POST[k] # Absent}

Strip(domain, POST) ==
    [f \in DOMAIN POST |-> IF f \in ExtraKeys(domain, POST) THEN Absent ELSE POST[f]]

C5_AtomicWrites ==
    [][\A w \in Workers : pc[w] = "form_valid" /\ pc'[w] = "idle" =>
          /\ resp'[w].status \in {"OK", "created", "exception"}
          /\ resp'[w].status = "exception" =>
                /\ localities' = localities
                /\ values' = values
                /\ changesets' = changesets]_vars

\* A transaction has failed.
C5_Witness ==
    /\ \E w \in Workers : resp[w].view = "update" /\ resp[w].status = "exception"
    /\ \E w \in Workers : resp[w].view = "create" /\ resp[w].status = "exception"

\* Geometry and Value rows of one Locality.
Content(d, pk) == [geom |-> d.localities[pk].geom,
                   values |-> {v \in d.values : v.locality = pk}]

\* What w's submission produces when it runs alone on the committed state:
\* loaded and committed with nothing in between.
Alone(w) ==
    LocalityUpdate_body(db, [req[w] EXCEPT !.object = get_object(db, req[w].object.pk)],
                        "none")

\* C6: however two Updates of one Locality interleave, each commit leaves the
\* geometry and every Value of the Locality as the committing submission alone
\* produces them (its geometry, its value for every key of its mapping), and
\* nothing but a committing Update changes them: the last commit wins whole.
C6_LastCommitWins ==
    [][/\ \A w \in Workers : UpdateCommits(w) =>
             LET pk   == req[w].object.pk
                 data == cleaned_data(LocalityForm_fields(req[w].object), req[w].POST)
             IN /\ Content(db', pk) = Content(Alone(w), pk)
                /\ localities'[pk].geom = SubmittedGeom(req[w])
                /\ \A k \in DOMAIN data :
                      ValueRows(values', pk, k) =
                          {[locality |-> pk, key |-> k, data |-> data[k]]}
       /\ \A pk \in DOMAIN localities :
             Content(db', pk) # Content(db, pk) =>
                 \E w \in Workers : UpdateCommits(w) /\ req[w].object.pk = pk]_vars

\* Two Updates of Locality 1 ran interleaved: one created Changeset 2 between the
\* other's load and commit, and the other, committing last, wrote its own fields.
C6_Witness ==
    /\ \A w \in Workers : resp[w].view = "update" /\ resp[w].status = "OK"
    /\ DOMAIN localities = {1}
    /\ DOMAIN changesets = {1, 2}
    /\ localities[1].changeset = 1
    /\ localities[1].geom = <<10, 20>>

C8_LedgerAppendOnly == [][UnchangedLedger]_vars

\* The ledger has grown, and a later transaction has failed.
C8_Witness ==
    /\ DOMAIN changesets = {1, 2}
    /\ \E w \in Workers : resp[w].status = "exception"
    /\ \E w \in Workers : resp[w].status \in {"OK", "created"}

Unique(vals) == \A v1, v2 \in vals :
                    v1.locality = v2.locality /\ v1.key = v2.key => v1 = v2

\* C9: there is at most one Value row per (Locality, key).  A committed Update
\* leaves, for every key of its validated mapping, exactly the one row holding
\* the submitted data, replacing the row when there was one and creating it
\* only when there was none, and leaves every other Value row unchanged.
C9_OneValuePerKey ==
    [][/\ Unique(values) => Unique(values')
       /\ \A w \in Workers : UpdateCommits(w) =>
             LET pk   == req[w].object.pk
                 data == cleaned_data(LocalityForm_fields(req[w].object), req[w].POST)
                 made == {k \in DOMAIN data : ValueRows(values, pk, k) = {}}
             IN /\ \A k \in DOMAIN data :
                      ValueRows(values', pk, k) =
                          {[locality |-> pk, key |-> k, data |-> data[k]]}
                /\ Cardinality(values') = Cardinality(values) + Cardinality(made)
                /\ \A v \in values :
                      v.locality # pk \/ v.key \notin DOMAIN data => v \in values']_vars

\* An Update created the phone row Locality 1 did not have, and a later Update
\* replaced its data.
C9_Witness ==
    /\ \E w \in Workers : resp[w].view = "update" /\ resp[w].status = "OK"
    /\ ValueRows(values, 1, "phone") = {[locality |-> 1, key |-> "phone", data |-> ""]}
    /\ ValueRows(values, 1, "name") = {[locality |-> 1, key |-> "name", data |-> "a"]}
    /\ \E w \in Workers : pc[w] = "form_valid" /\ req[w].op = "update"
                          /\ req[w].object.pk = 1 /\ req[w].POST["phone"] = "a"

\* C10: a committed Update changes the persisted geometry only together with a
\* Changeset it created itself, and never sets the changeset reference back to
\* an older Changeset than the one persisted when it commits.
C10_NoStaleWrite ==
    [][\A w \in Workers : UpdateCommits(w) =>
          LET pk == req[w].object.pk
          IN /\ localities'[pk].geom # localities[pk].geom =>
                   localities'[pk].changeset \in NewChangesets
             /\ localities'[pk].changeset >= localities[pk].changeset]_vars
====
